---- MODULE Spec2Model ----
(***************************************************************************)
(* Model of src/web/runtime.js: the mask overlay runtime.                  *)
(*                                                                         *)
(* Lengths are kept in units of 1/Q (a box width of 200*Q is 200 CSS px, a *)
(* device pixel ratio of 2*Q is 2.0) so that fractional boxes and ratios   *)
(* and Math.round are computed exactly with integers.  JSON numbers are kept *)
(* as sign, two 16-bit limbs and a half flag so that the 32-bit coercion   *)
(* `x | 0` is computed at its true width.                                  *)
(***************************************************************************)
EXTENDS Integers, Sequences, FiniteSets, TLC

(* ------------------------------ bounds -------------------------------- *)
MaxMasks == 2
MaxAttrLen == 2
MaxPending == 2
NRoots == 2
\* lengths, ratios and mask fractions are kept in units of 1/Q
Q == 8

Two16 == 2^16
Two15 == 2^15

SeqsUpTo(S, n) == UNION {[1..k -> S] : k \in 0..n}

(* --------------------------- JSON numbers ----------------------------- *)
\* A JS number: finite (sign, magnitude hi*2^16+lo, plus one half), an
\* infinity, or NaN.
Fin(neg, hi, lo, half) == [k |-> "fin", neg |-> neg, hi |-> hi, lo |-> lo, half |-> half]
Inf == [k |-> "inf", neg |-> FALSE, hi |-> 0, lo |-> 0, half |-> FALSE]
NaN == [k |-> "nan", neg |-> FALSE, hi |-> 0, lo |-> 0, half |-> FALSE]
Zero == Fin(FALSE, 0, 0, FALSE)
One == Fin(FALSE, 0, 1, FALSE)

\* x | 0 on a number: NaN and the infinities give 0; otherwise truncate
\* towards zero, reduce modulo 2^32 and read the result as a signed 32-bit
\* integer.
ToInt32(n) ==
  IF n.k # "fin" THEN 0
  ELSE LET h == n.hi % Two16
           l == n.lo
           l2 == IF n.neg THEN (Two16 - l) % Two16 ELSE l
           h2 == IF n.neg
                 THEN (Two16 - 1 - h + (IF l = 0 THEN 1 ELSE 0)) % Two16
                 ELSE h
       IN IF h2 >= Two15 THEN (h2 - Two16) * Two16 + l2 ELSE h2 * Two16 + l2

\* Number.isFinite
IsFinite(n) == n.k = "fin"

(* ---------------------------- JSON values ----------------------------- *)
\* A mask: {x, y, w, h} as fractions of the image box, in units of 1/Q.
Mask(x, y, w, h) == [x |-> x, y |-> y, w |-> w, h |-> h]
MaskVals == {Mask(0, 0, 2, 2), Mask(1, 2, 3, 1)}
MaskLists == SeqsUpTo(MaskVals, MaxMasks)

\* A property value of a parsed object.  A string carries the number that
\* ToNumber gives for it.
JV(t, n, items) == [t |-> t, n |-> n, items |-> items]
Absent == JV("absent", NaN, <<>>)
JNull == JV("null", Zero, <<>>)
JTrue == JV("bool", One, <<>>)
JNum(n) == JV("num", n, <<>>)
JStr(n) == JV("str", n, <<>>)
JArr(items) == JV("arr", NaN, items)

\* Number(x): undefined is NaN, null is 0, true is 1, a string is the number
\* it spells, [] is 0 and an array of objects is NaN.
ToNumber(jv) ==
  CASE jv.t = "absent" -> NaN
    [] jv.t = "arr" -> IF jv.items = <<>> THEN Zero ELSE NaN
    [] OTHER -> jv.n

\* The value JSON.parse returns: null, a primitive, an array, or an object
\* with the properties v, masks and active.
TV(t, v, masks, active) == [t |-> t, v |-> v, masks |-> masks, active |-> active]
TNull == TV("null", Absent, Absent, Absent)
TPrim == TV("prim", Absent, Absent, Absent)
TArr == TV("arr", Absent, Absent, Absent)
TObj(v, masks, active) == TV("obj", v, masks, active)

\* JSON.parse on a text: [ok |-> FALSE] models the SyntaxError.
Text(k, val) == [k |-> k, val |-> val]
JSONParse(txt) ==
  IF txt.k = "json" THEN [ok |-> TRUE, val |-> txt.val]
  ELSE [ok |-> FALSE, val |-> TNull]

(* ------------------------------ strings ------------------------------- *)
Chars == {"-", "0", "3", "x", " "}
Digits == {"0", "1", "2", "3", "4", "5", "6", "7", "8", "9"}
DigitVal(c) ==
  CASE c = "0" -> 0 [] c = "1" -> 1 [] c = "2" -> 2 [] c = "3" -> 3
    [] c = "4" -> 4 [] c = "5" -> 5 [] c = "6" -> 6 [] c = "7" -> 7
    [] c = "8" -> 8 [] c = "9" -> 9

\* An attribute: absent (getAttribute gives null) or a string.
Attr(has, s) == [has |-> has, s |-> s]
NoAttr == Attr(FALSE, <<>>)

RECURSIVE SkipWs(_)
SkipWs(s) == IF s # <<>> /\ Head(s) = " " THEN SkipWs(Tail(s)) ELSE s

RECURSIVE DigitsVal(_, _, _)
\* value of the longest digit prefix of s; n counts the digits read
DigitsVal(s, acc, n) ==
  IF s # <<>> /\ Head(s) \in Digits
  THEN DigitsVal(Tail(s), acc * 10 + DigitVal(Head(s)), n + 1)
  ELSE [nan |-> n = 0, val |-> acc]

\* parseInt(s, 10)
ParseInt(s) ==
  LET t == SkipWs(s)
      neg == t # <<>> /\ Head(t) = "-"
      u == IF t # <<>> /\ Head(t) \in {"-", "+"} THEN Tail(t) ELSE t
      d == DigitsVal(u, 0, 0)
  IN [nan |-> d.nan, val |-> IF neg THEN 0 - d.val ELSE d.val]

\* parseInt(attr || dflt, 10) || alt
ParseIntOr(a, dflt, alt) ==
  LET s == IF a.has /\ a.s # <<>> THEN a.s ELSE dflt
      p == ParseInt(s)
  IN IF p.nan \/ p.val = 0 THEN alt ELSE p.val

(* ------------------------- payload decoding --------------------------- *)
\* The script.aioe-internal element of a root: none, or its text.
NoScript == Text("noscript", TNull)

\* aioeParseInternalFromDom: [ok |-> FALSE] is the null return.
Rejected == [ok |-> FALSE, masks |-> <<>>, active |-> Zero]

\* as aioeParseInternalFromDom, but an empty masks array is rejected
\* (`if (!masks.length) return null`)
aioeParseNonEmpty(script) ==
  IF script.k \in {"noscript", "blank"} THEN Rejected
  ELSE LET p == JSONParse(script)
           obj == p.val
       IN IF ~p.ok \/ obj.t \in {"null", "prim"} THEN Rejected
          ELSE IF ToInt32(ToNumber(obj.v)) < 1 THEN Rejected
          ELSE IF obj.masks.t # "arr" \/ obj.masks.items = <<>> THEN Rejected
          ELSE [ok |-> TRUE, masks |-> obj.masks.items,
                active |-> IF IsFinite(ToNumber(obj.active))
                           THEN ToNumber(obj.active) ELSE Zero]

\* as aioeParseInternalFromDom, without the version check of line 18
aioeParseAnyVersion(script) ==
  IF script.k \in {"noscript", "blank"} THEN Rejected
  ELSE LET p == JSONParse(script)
           obj == p.val
       IN IF ~p.ok \/ obj.t \in {"null", "prim"} THEN Rejected
          ELSE IF obj.masks.t # "arr" THEN Rejected
          ELSE [ok |-> TRUE, masks |-> obj.masks.items,
                active |-> IF IsFinite(ToNumber(obj.active))
                           THEN ToNumber(obj.active) ELSE Zero]

aioeParseInternalFromDom(script) ==
  IF script.k = "noscript" THEN Rejected
  ELSE IF script.k = "blank" THEN Rejected
  ELSE LET p == JSONParse(script)
           obj == p.val
       IN IF ~p.ok THEN Rejected
          ELSE IF obj.t \in {"null", "prim"} THEN Rejected
          ELSE IF ToInt32(ToNumber(obj.v)) < 1 THEN Rejected
          ELSE IF obj.masks.t # "arr" THEN Rejected
          ELSE [ok |-> TRUE, masks |-> obj.masks.items,
                active |-> IF IsFinite(ToNumber(obj.active))
                           THEN ToNumber(obj.active) ELSE Zero]

\* b64ToUtf8 on the data-masks-b64 attribute [k, val]: "absent" and "empty"
\* decode to the empty text, "badb64" makes atob throw twice and gives the
\* empty text, "utf8" is base64 of UTF-8 text and "raw" base64 of bytes that
\* are not UTF-8 (decodeURIComponent throws and the atob text is used); val
\* is that text.
b64ToUtf8(b64) ==
  IF b64.k \in {"absent", "empty", "badb64"} THEN Text("blank", TNull)
  ELSE b64.val

\* parseMasksB64: the parsed value, or {v: 1, masks: []} when JSON.parse
\* throws.
parseMasksB64(b64) ==
  LET p == JSONParse(b64ToUtf8(b64))
  IN IF p.ok THEN p.val ELSE TObj(JNum(One), JArr(<<>>), Absent)

\* initOne, lines 104-117: the resolved masks and active index, and
\* whether the TypeError of `parsed.masks` on null was raised.
Resolved(raised, src, masks, activeIndex) ==
  [raised |-> raised, src |-> src, masks |-> masks, activeIndex |-> activeIndex]
\* as ResolvePayload, but an active index of 0 in the payload is replaced
\* by the data-active attribute
ResolvePayloadActiveFallback(root) ==
  LET internal == aioeParseInternalFromDom(root.script)
      legacyActive == ParseIntOr(root.dataActive, <<"0">>, 0)
  IN IF internal.ok
     THEN Resolved(FALSE, "internal", internal.masks,
                   IF ToInt32(internal.active) # 0 THEN ToInt32(internal.active)
                   ELSE legacyActive)
     ELSE LET parsed == parseMasksB64(root.dataMasksB64)
          IN IF parsed.t = "null"
             THEN Resolved(TRUE, "legacy", <<>>, legacyActive)
             ELSE Resolved(FALSE, "legacy",
                           IF parsed.masks.t = "arr" THEN parsed.masks.items ELSE <<>>,
                           legacyActive)

ResolvePayload(root) ==
  LET internal == aioeParseInternalFromDom(root.script)
  IN IF internal.ok
     THEN Resolved(FALSE, "internal", internal.masks, ToInt32(internal.active))
     ELSE LET activeIndex == ParseIntOr(root.dataActive, <<"0">>, 0)
              parsed == parseMasksB64(root.dataMasksB64)
          IN IF parsed.t = "null"
             THEN Resolved(TRUE, "legacy", <<>>, activeIndex)
             ELSE Resolved(FALSE, "legacy",
                           IF parsed.masks.t = "arr" THEN parsed.masks.items ELSE <<>>,
                           activeIndex)

(* ------------------------------- roots -------------------------------- *)
Roots == 1..NRoots

\* An overlay root: its script.aioe-internal, its data-* attributes and
\* whether it contains an img.
Root(script, dataActive, dataMasksB64, dataSide, fillFront, fillOther, stroke, outlinePx, hasImg) ==
  [script |-> script, dataActive |-> dataActive, dataMasksB64 |-> dataMasksB64,
   dataSide |-> dataSide, fillFront |-> fillFront, fillOther |-> fillOther,
   stroke |-> stroke, outlinePx |-> outlinePx, hasImg |-> hasImg]

\* a || b on strings
OrStr(a, dflt) == IF a.has /\ a.s # "" THEN a.s ELSE dflt

(* ------------------------------ drawing ------------------------------- *)
MinBoxPx == 2
DefaultOutline == 2
DefaultStroke == "rgba(0,0,0,0.65)"
DefaultFillFront == "rgba(40,40,40,0.85)"
DefaultFillOther == "rgba(255,215,0,0.35)"

Max(a, b) == IF a >= b THEN a ELSE b

\* as RoundProd, but truncating (Math.floor, or `| 0`)
RoundProdTrunc(len, d) == (len * d) \div (Q * Q)

\* Math.round(len * dpr) for len and dpr in units of 1/Q: the nearest
\* integer, halves rounded up.
RoundProd(len, d) == (2 * len * d + Q * Q) \div (2 * Q * Q)

\* window.devicePixelRatio || 1: a missing or zero ratio is 1.
EffDpr(d) == IF d = 0 THEN Q ELSE d

\* as ensureWrapper, without the closest() lookup
ensureWrapperAlways(nwrap) == nwrap + 1

\* ensureWrapper: the number of .aioe-wrap elements around the image after
\* the call (closest() finds an existing one).
ensureWrapper(nwrap) == IF nwrap > 0 THEN nwrap ELSE nwrap + 1

\* makeCanvas: the number of canvas.aioe-cv elements in the wrapper after
\* the call and the ordinal of the one returned (querySelector finds the
\* first).
makeCanvas(ncanv) ==
  IF ncanv > 0 THEN [n |-> ncanv, cv |-> 1] ELSE [n |-> ncanv + 1, cv |-> ncanv + 1]

\* One canvas operation: fillRect or strokeRect for the mask at idx, with
\* the fillStyle or strokeStyle set for it, the value assigned to
\* ctx.lineWidth (0 for a fill) and the rectangle.
PaintOp(op, idx, color, lw, rect) ==
  [op |-> op, idx |-> idx, color |-> color, lw |-> lw, rect |-> rect]

\* as MaskOps, but outside "front" the active mask is filled like the others
MaskOpsFillsActive(side, m, idx, activeIndex, style, b) ==
  LET x == 2 * m.x * b[1]
      y == 2 * m.y * b[2]
      w == 2 * m.w * b[1]
      h == 2 * m.h * b[2]
      stroke == IF style.stroke # "" THEN style.stroke ELSE DefaultStroke
      fillFront == IF style.fill_front # "" THEN style.fill_front ELSE DefaultFillFront
      fillOther == IF style.fill_other # "" THEN style.fill_other ELSE DefaultFillOther
      lw == IF style.outline_px # 0 THEN style.outline_px ELSE DefaultOutline
      col == IF side = "front" /\ idx = activeIndex THEN fillFront ELSE fillOther
  IN <<PaintOp("fill", idx, col, 0, <<x, y, w, h>>),
       PaintOp("stroke", idx, stroke, lw, <<x + Q * Q, y + Q * Q, w, h>>)>>

\* as MaskOps, but the outline is issued before the fill
MaskOpsStrokeFirst(side, m, idx, activeIndex, style, b) ==
  LET x == 2 * m.x * b[1]
      y == 2 * m.y * b[2]
      w == 2 * m.w * b[1]
      h == 2 * m.h * b[2]
      stroke == IF style.stroke # "" THEN style.stroke ELSE DefaultStroke
      fillFront == IF style.fill_front # "" THEN style.fill_front ELSE DefaultFillFront
      fillOther == IF style.fill_other # "" THEN style.fill_other ELSE DefaultFillOther
      lw == IF style.outline_px # 0 THEN style.outline_px ELSE DefaultOutline
      fill == IF side = "front"
              THEN <<PaintOp("fill", idx, IF idx = activeIndex THEN fillFront ELSE fillOther,
                             0, <<x, y, w, h>>)>>
              ELSE IF idx # activeIndex
                   THEN <<PaintOp("fill", idx, fillOther, 0, <<x, y, w, h>>)>>
                   ELSE <<>>
  IN <<PaintOp("stroke", idx, stroke, lw, <<x + Q * Q, y + Q * Q, w, h>>)>> \o fill

\* The canvas operations of one forEach callback, for the mask at the
\* 0-based index idx.  Rectangles are in units of 1/(2*Q*Q) px, in which
\* the 0.5 px offset is Q*Q.
MaskOps(side, m, idx, activeIndex, style, b) ==
  LET x == 2 * m.x * b[1]
      y == 2 * m.y * b[2]
      w == 2 * m.w * b[1]
      h == 2 * m.h * b[2]
      stroke == IF style.stroke # "" THEN style.stroke ELSE DefaultStroke
      fillFront == IF style.fill_front # "" THEN style.fill_front ELSE DefaultFillFront
      fillOther == IF style.fill_other # "" THEN style.fill_other ELSE DefaultFillOther
      lw == IF style.outline_px # 0 THEN style.outline_px ELSE DefaultOutline
      fill == IF side = "front"
              THEN <<PaintOp("fill", idx, IF idx = activeIndex THEN fillFront ELSE fillOther,
                             0, <<x, y, w, h>>)>>
              ELSE IF idx # activeIndex
                   THEN <<PaintOp("fill", idx, fillOther, 0, <<x, y, w, h>>)>>
                   ELSE <<>>
  IN fill \o <<PaintOp("stroke", idx, stroke, lw, <<x + Q * Q, y + Q * Q, w, h>>)>>

RECURSIVE PaintFrom(_, _, _)
\* masks.forEach from the 1-based position i on
PaintFrom(c, b, i) ==
  IF i > Len(c.masks) THEN <<>>
  ELSE MaskOps(c.side, c.masks[i], i - 1, c.activeIndex, c.style, b)
       \o PaintFrom(c, b, i + 1)

\* as Unready, without the height
UnreadyWidthOnly(b) == b[1] < MinBoxPx * Q

\* r.width < 2 || r.height < 2
Unready(b) == b[1] < MinBoxPx * Q \/ b[2] < MinBoxPx * Q

\* as getBoundingClientRect, but the box of the last painting draw is kept
getBoundingClientRectCached(last, b) == IF last # <<0, 0>> THEN last ELSE b

\* img.getBoundingClientRect() at line 57: the box b the image has at the
\* moment of the call, whatever the box last was the last time draw painted.
getBoundingClientRect(last, b) == b

\* as requestRetry, but nothing is scheduled
requestRetryDropped(q, c) == q

\* as requestRetry, but the retry is scheduled twice
requestRetryTwice(q, c) == Append(Append(q, c), c)

\* requestAnimationFrame(() => draw(side, img, masks, activeIndex, style))
\* at line 59: one callback with the arguments of the call joins the
\* pending callbacks q.
requestRetry(q, c) == Append(q, c)

\* as clearSurface, but what was painted stays
clearSurfaceSkipped(painted) == painted

\* lines 66-71: assigning cv.width and cv.height resets the bitmap, and
\* clearRect(0, 0, r.width, r.height) under the dpr transform clears the
\* visible area: nothing of what was painted is left.
clearSurface(painted) == <<>>

\* draw(side, img, masks, activeIndex, style) on the image of root r, with
\* the image box b and the device pixel ratio d of the moment.  P holds the
\* DOM and scheduler state the call reads and writes.
drawOn(P, r, c, b0, d) ==
  LET nw == ensureWrapper(P.wrap[r])
      mc == makeCanvas(P.canv[r])
      P1 == [P EXCEPT !.wrap[r] = nw, !.canv[r] = mc.n, !.drawn[r] = TRUE]
      b == getBoundingClientRect(P.css[r], b0)
  IN IF Unready(b)
     THEN [P1 EXCEPT !.rafQ[r] = requestRetry(@, c)]
     ELSE LET dpr == EffDpr(d)
          IN [P1 EXCEPT !.css[r] = b,
                        !.buf[r] = <<Max(1, RoundProd(b[1], dpr)), Max(1, RoundProd(b[2], dpr))>>,
                        !.ops[r] = clearSurface(@) \o PaintFrom(c, b, 1),
                        !.used[r] = mc.cv]

\* draw on the page state Pin, taken by value
draw(Pin, r, c, b, d) == CHOOSE out \in {drawOn(P, r, c, b, d) : P \in {Pin}} : TRUE

RECURSIVE drawEach(_, _, _, _, _)
\* the rerender closures cs run one after the other
drawEach(P, r, cs, b, d) ==
  IF cs = <<>> THEN P ELSE drawEach(draw(P, r, Head(cs), b, d), r, Tail(cs), b, d)

(* ------------------------------- state -------------------------------- *)
VARIABLES
  doc,          \* root -> the root's content
  readyState,   \* document.readyState
  dpr,          \* window.devicePixelRatio, in units of 1/Q (0: missing)
  hasRO,        \* window.ResizeObserver exists
  complete,     \* root -> img.complete
  box,          \* root -> <<width, height>> of img.getBoundingClientRect()
  booted,       \* the script body (lines 147-152) has run
  dclListener,  \* init is registered for DOMContentLoaded
  timerPending, \* setTimeout(init, 0) is pending
  passes,       \* number of init() calls so far
  raised,       \* number of init() calls that ended by an exception
  decodes,      \* root -> number of initOne calls started
  inits,        \* root -> number of initOne calls that returned
  loadL,        \* root -> the once-listeners for load of the img (rerender closures)
  resizeL,      \* root -> the window resize listeners of the root (rerender closures)
  roL,          \* root -> the ResizeObserver callbacks observing the img
  rafQ,         \* root -> the pending animation-frame callbacks (rerender closures)
  wrap,         \* root -> .aioe-wrap elements around the img
  canv,         \* root -> canvas.aioe-cv elements in the wrapper
  used,         \* root -> ordinal of the canvas last painted (0: none)
  css,          \* root -> <<style.width, style.height>> of the canvas
  buf,          \* root -> <<width, height>> of the canvas
  ops,          \* root -> fill and stroke operations on the canvas since the last clear
  drawn,        \* root -> draw has been called for the img
  dRoot,        \* decoding alone: the root given
  dRes,         \* decoding alone: the result
  dpc           \* decoding alone: "ready", "done" or "off"

envVars == <<doc, readyState, dpr, hasRO, complete, box>>
bootVars == <<booted, dclListener, timerPending, passes, raised>>
pageVars == <<decodes, inits, loadL, resizeL, roL, rafQ,
              wrap, canv, used, css, buf, ops, drawn>>
decVars == <<dRoot, dRes, dpc>>
vars == <<envVars, bootVars, pageVars, decVars>>

\* The page state as one record, for the operators that thread it.
Page ==
  [threw |-> FALSE, decodes |-> decodes, inits |-> inits,
   loadL |-> loadL, resizeL |-> resizeL, roL |-> roL,
   rafQ |-> rafQ, wrap |-> wrap, canv |-> canv, used |-> used, css |-> css,
   buf |-> buf, ops |-> ops, drawn |-> drawn]

Commit(P) ==
  /\ decodes' = P.decodes /\ inits' = P.inits
  /\ loadL' = P.loadL /\ resizeL' = P.resizeL /\ roL' = P.roL
  /\ rafQ' = P.rafQ /\ wrap' = P.wrap /\ canv' = P.canv
  /\ used' = P.used /\ css' = P.css /\ buf' = P.buf /\ ops' = P.ops
  /\ drawn' = P.drawn

(* ------------------------------ initOne ------------------------------- *)
Closure(side, masks, activeIndex, style) ==
  [side |-> side, masks |-> masks, activeIndex |-> activeIndex, style |-> style]

\* initOne(root) for the root r; P.threw is set when it ends by an exception.
initOneOn(P, r) ==
  LET root == doc[r]
      side == OrStr(root.dataSide, "front")
      res == ResolvePayload(root)
      style == [fill_front |-> OrStr(root.fillFront, ""),
                fill_other |-> OrStr(root.fillOther, ""),
                stroke |-> OrStr(root.stroke, ""),
                outline_px |-> ParseIntOr(root.outlinePx, <<"2">>, DefaultOutline)]
      c == Closure(side, res.masks, res.activeIndex, style)
      P0 == [P EXCEPT !.decodes[r] = @ + 1]
  IN IF res.raised THEN [P0 EXCEPT !.threw = TRUE]
     ELSE IF ~root.hasImg THEN [P0 EXCEPT !.inits[r] = @ + 1]
     ELSE LET P1 == IF complete[r] THEN draw(P0, r, c, box[r], dpr)
                    ELSE [P0 EXCEPT !.loadL[r] = Append(@, c)]
          IN [P1 EXCEPT !.resizeL[r] = Append(@, c),
                        !.roL[r] = IF hasRO THEN Append(@, c) ELSE @,
                        !.rafQ[r] = Append(@, c),
                        !.inits[r] = @ + 1]

\* initOne on the page state Pin, taken by value
initOne(Pin, r) == CHOOSE out \in {initOneOn(P, r) : P \in {Pin}} : TRUE

RECURSIVE initFrom(_, _)
\* roots.forEach(initOne) from the root r on, in document order; an
\* exception ends the loop.
initFrom(P, r) ==
  IF r > NRoots THEN P
  ELSE CHOOSE out \in {IF P1.threw THEN P1 ELSE initFrom(P1, r + 1) :
                       P1 \in {initOne(P, r)}} : TRUE

\* init()
init(P) == initFrom(P, 1)

(* ------------------------------- inputs ------------------------------- *)
Half == Fin(FALSE, 0, 0, TRUE)
OneAndHalf == Fin(FALSE, 0, 1, TRUE)
Two == Fin(FALSE, 0, 2, FALSE)
MinusOne == Fin(TRUE, 0, 1, FALSE)
TwoTo31 == Fin(FALSE, Two15, 0, FALSE)
MinusTwoTo32Less1 == Fin(TRUE, Two16 - 1, Two16 - 1, FALSE)

VVals == {Absent, JStr(One)} \cup
         {JNum(n) : n \in {Zero, Half, One, OneAndHalf, TwoTo31, MinusTwoTo32Less1, Inf}}
ActiveVals == {Absent, JStr(NaN), JStr(Two)} \cup
              {JNum(n) : n \in {One, OneAndHalf, MinusOne, TwoTo31, Inf}}
MasksVals == {Absent, JStr(NaN)} \cup {JArr(l) : l \in MaskLists}

Scripts ==
  {NoScript, Text("blank", TNull), Text("garbage", TNull),
   Text("json", TNull), Text("json", TPrim), Text("json", TArr)} \cup
  {Text("json", TObj(v, m, a)) : v \in VVals, m \in MasksVals, a \in ActiveVals}

B64(k, val) == [k |-> k, val |-> val]
NoB64 == B64("absent", Text("blank", TNull))
B64s ==
  {NoB64, B64("empty", Text("blank", TNull)), B64("badb64", Text("blank", TNull)),
   B64("raw", Text("garbage", TNull)), B64("raw", Text("json", TNull))} \cup
  {B64("utf8", t) : t \in {Text("garbage", TNull), Text("json", TNull),
                           Text("json", TPrim), Text("json", TArr)}} \cup
  {B64("utf8", Text("json", TObj(JNum(One), m, Absent))) : m \in MasksVals}

IntAttrs == {NoAttr} \cup {Attr(TRUE, s) : s \in SeqsUpTo(Chars, MaxAttrLen)}
NoStr == Attr(FALSE, "")

\* roots given to the decoding alone
\* every script with a few legacy attributes, and every value of the legacy
\* attributes with a few scripts
DecodeRoots ==
  {Root(sc, a, b, NoStr, NoStr, NoStr, NoStr, NoAttr, FALSE) :
     sc \in Scripts, a \in {NoAttr, Attr(TRUE, <<"3">>)},
     b \in {NoB64, B64("utf8", Text("json", TNull)),
            B64("utf8", Text("json", TObj(JNum(One), JArr(<<Mask(1, 2, 3, 1)>>), Absent)))}}
  \cup
  {Root(sc, a, b, NoStr, NoStr, NoStr, NoStr, NoAttr, FALSE) :
     sc \in {NoScript, Text("blank", TNull), Text("garbage", TNull), Text("json", TNull),
             Text("json", TObj(JNum(Half), JArr(<<>>), Absent)),
             Text("json", TObj(JNum(One), Absent, JNum(One))),
             Text("json", TObj(JNum(One), JArr(<<>>), JNum(OneAndHalf)))},
     a \in IntAttrs, b \in B64s}

\* roots of a page
GoodScript == Text("json", TObj(JNum(One), JArr(<<Mask(0, 0, 2, 2), Mask(1, 2, 3, 1)>>), JNum(One)))
GoodB64 == B64("utf8", Text("json", TObj(JNum(One), JArr(<<Mask(1, 2, 3, 1)>>), Absent)))
NullB64 == B64("utf8", Text("json", TNull))
\* a root with an embedded payload, side "front" by default
FrontRoot == Root(GoodScript, NoAttr, NoB64, NoStr, NoStr, NoStr, NoStr, NoAttr, TRUE)
\* a root with legacy attributes, side "back"
BackRoot ==
  Root(NoScript, Attr(TRUE, <<"3">>), GoodB64, Attr(TRUE, "back"), Attr(TRUE, "red"),
       NoStr, NoStr, Attr(TRUE, <<"-", "3">>), TRUE)
\* a root whose data-masks-b64 is base64 of the text null
NullRoot == Root(NoScript, NoAttr, NullB64, NoStr, NoStr, NoStr, NoStr, NoAttr, TRUE)
\* roots without an img
EmptyRoot == Root(GoodScript, NoAttr, NullB64, Attr(TRUE, "back"), NoStr, NoStr, NoStr, NoAttr, FALSE)
EmptyNullRoot == Root(NoScript, NoAttr, NullB64, NoStr, NoStr, NoStr, NoStr, NoAttr, FALSE)

\* a page: its first root and the roots after it, in document order
PageOf(first, rest) == [r \in Roots |-> IF r = 1 THEN first ELSE rest]
Pages ==
  {PageOf(FrontRoot, BackRoot), PageOf(BackRoot, NullRoot), PageOf(NullRoot, FrontRoot),
   PageOf(EmptyRoot, FrontRoot), PageOf(EmptyNullRoot, BackRoot), PageOf(BackRoot, EmptyRoot)}

Hidden == <<200 * Q, 2 * Q - 1>>
Boxes == {Hidden, <<2 * Q, 3 * Q>>, <<200 * Q, 100 * Q>>}
Dprs == {0, 1, 2 * Q}

NoRes == Resolved(FALSE, "none", <<>>, 0)

(* -------------------------------- Init -------------------------------- *)
PageInit ==
  /\ booted = FALSE /\ dclListener = FALSE /\ timerPending = FALSE
  /\ passes = 0 /\ raised = 0
  /\ decodes = [r \in Roots |-> 0] /\ inits = [r \in Roots |-> 0]
  /\ loadL = [r \in Roots |-> <<>>] /\ resizeL = [r \in Roots |-> <<>>]
  /\ roL = [r \in Roots |-> <<>>]
  /\ rafQ = [r \in Roots |-> <<>>]
  /\ wrap = [r \in Roots |-> 0] /\ canv = [r \in Roots |-> 0]
  /\ used = [r \in Roots |-> 0]
  /\ css = [r \in Roots |-> <<0, 0>>] /\ buf = [r \in Roots |-> <<0, 0>>]
  /\ ops = [r \in Roots |-> <<>>]
  /\ drawn = [r \in Roots |-> FALSE]

\* the decoding alone is not part of a page
DecodeOff ==
  /\ dRoot = Root(NoScript, NoAttr, NoB64, NoStr, NoStr, NoStr, NoStr, NoAttr, FALSE)
  /\ dRes = NoRes
  /\ dpc = "off"

Init ==
  /\ doc \in Pages
  /\ readyState \in {"loading", "complete"}
  /\ dpr \in Dprs
  /\ hasRO \in BOOLEAN
  /\ complete \in [Roots -> BOOLEAN]
  /\ box \in [Roots -> {Hidden, <<200 * Q, 100 * Q>>}]
  /\ \A r \in Roots : ~doc[r].hasImg => (~complete[r] /\ box[r] = Hidden)
  /\ PageInit
  /\ DecodeOff

(* ------------------------------ actions ------------------------------- *)
\* lines 147-152: the script body.  An exception of init() at line 150 ends
\* the script before setTimeout is reached.
Boot ==
  /\ ~booted
  /\ booted' = TRUE
  /\ IF readyState = "loading"
     THEN /\ dclListener' = TRUE
          /\ timerPending' = TRUE
          /\ UNCHANGED <<passes, raised, pageVars>>
     ELSE \E P \in {init(Page)} :
             /\ Commit(P)
             /\ passes' = passes + 1
             /\ raised' = IF P.threw THEN raised + 1 ELSE raised
             /\ timerPending' = ~P.threw
             /\ UNCHANGED dclListener
  /\ UNCHANGED <<envVars, decVars>>

\* the document finishes loading: DOMContentLoaded runs init
DOMContentLoaded ==
  /\ booted /\ readyState = "loading"
  /\ readyState' = "interactive"
  /\ IF dclListener
     THEN \E P \in {init(Page)} :
             /\ Commit(P)
             /\ passes' = passes + 1
             /\ raised' = IF P.threw THEN raised + 1 ELSE raised
     ELSE UNCHANGED <<passes, raised, pageVars>>
  /\ UNCHANGED <<doc, dpr, hasRO, complete, box, booted, dclListener, timerPending, decVars>>

\* the zero-delay timer runs init
Timer ==
  /\ timerPending
  /\ timerPending' = FALSE
  /\ \E P \in {init(Page)} :
        /\ Commit(P)
        /\ passes' = passes + 1
        /\ raised' = IF P.threw THEN raised + 1 ELSE raised
  /\ UNCHANGED <<envVars, booted, dclListener, decVars>>

\* only so many retries may pile up for one image
MayDraw(r, cs) == Unready(box[r]) => Len(rafQ[r]) + Len(cs) <= MaxPending

\* the img of root r emits load, for the first time or again: its
\* once-listeners run and are gone
Load(r) ==
  /\ doc[r].hasImg
  /\ complete' = [complete EXCEPT ![r] = TRUE]
  /\ \E P \in {drawEach(Page, r, loadL[r], box[r], dpr)} :
        Commit([P EXCEPT !.loadL[r] = <<>>])
  /\ UNCHANGED <<doc, readyState, dpr, hasRO, box, bootVars, decVars>>

RECURSIVE runAll(_, _, _)
\* for every root from r on, the callbacks cbs[r] run
runAll(P, cbs, r) ==
  IF r > NRoots THEN P
  ELSE runAll(drawEach(P, r, cbs[r], box[r], dpr), cbs, r + 1)

\* a window resize event: every registered rerender runs
Resize ==
  /\ \E r \in Roots : resizeL[r] # <<>>
  /\ \A r \in Roots : MayDraw(r, resizeL[r])
  /\ \E P \in {runAll(Page, resizeL, 1)} : Commit(P)
  /\ UNCHANGED <<envVars, bootVars, decVars>>

\* layout changes the box of the img of root r to b: the ResizeObservers
\* of the img are notified and their callbacks see the new box
BoxChange(r, b) ==
  /\ doc[r].hasImg /\ b # box[r]
  /\ Unready(b) => Len(rafQ[r]) + Len(roL[r]) <= MaxPending
  /\ box' = [box EXCEPT ![r] = b]
  /\ \E P \in {drawEach(Page, r, roL[r], b, dpr)} : Commit(P)
  /\ UNCHANGED <<doc, readyState, dpr, hasRO, complete, bootVars, decVars>>

\* an animation frame: the callbacks pending at its start run; those they
\* request wait for the next frame
Frame ==
  /\ \E r \in Roots : rafQ[r] # <<>>
  /\ \E P \in {runAll([Page EXCEPT !.rafQ = [r \in Roots |-> <<>>]], rafQ, 1)} : Commit(P)
  /\ UNCHANGED <<envVars, bootVars, decVars>>

Next ==
  \/ Boot
  \/ DOMContentLoaded
  \/ Timer
  \/ \E r \in Roots : Load(r)
  \/ Resize
  \/ \E r \in Roots, b \in Boxes : BoxChange(r, b)
  \/ Frame

Spec == Init /\ [][Next]_vars

\* pages whose roots all initialize, at one device pixel ratio
InitLive ==
  /\ doc \in {PageOf(FrontRoot, BackRoot), PageOf(BackRoot, EmptyRoot)}
  /\ readyState \in {"loading", "complete"}
  /\ dpr = Q
  /\ hasRO \in BOOLEAN
  /\ complete \in [Roots -> BOOLEAN]
  /\ box \in [Roots -> {Hidden, <<200 * Q, 100 * Q>>}]
  /\ \A r \in Roots : ~doc[r].hasImg => (~complete[r] /\ box[r] = Hidden)
  /\ PageInit
  /\ DecodeOff

\* The browser keeps producing animation frames: a requested callback is
\* run at the next frame.
SpecLive == InitLive /\ [][Next]_vars /\ WF_vars(Frame)

(* ------------------------- one root, any arguments -------------------- *)
\* roots that give draw every side, mask list, active index (in range or
\* not) and fill color
DrawRoots ==
  {Root(Text("json", TObj(JNum(One), JArr(l), a)), NoAttr, NoB64, sd, ff, NoStr, NoStr, NoAttr, TRUE) :
     l \in MaskLists, a \in {Absent, JNum(One), JNum(MinusOne)},
     sd \in {NoStr, Attr(TRUE, "back"), Attr(TRUE, "FRONT")},
     ff \in {NoStr, Attr(TRUE, "red")}}

InitDraw ==
  /\ doc \in {PageOf(d, EmptyRoot) : d \in DrawRoots}
  /\ readyState \in {"loading", "complete"}
  /\ dpr \in Dprs
  /\ hasRO = TRUE
  /\ complete = [r \in Roots |-> FALSE]
  /\ box = [r \in Roots |-> Hidden]
  /\ PageInit
  /\ DecodeOff

SpecDraw == InitDraw /\ [][Next]_vars

(* ---------------------- one root, any outline width ------------------ *)
\* a root with every value of the data-outline-px attribute
InitOutline ==
  /\ doc \in {PageOf(Root(GoodScript, NoAttr, NoB64, NoStr, NoStr, NoStr, NoStr, a, TRUE), EmptyRoot) :
                a \in IntAttrs}
  /\ readyState \in {"loading", "complete"}
  /\ dpr = Q
  /\ hasRO = FALSE
  /\ complete \in {[r \in Roots |-> r = 1 /\ c] : c \in BOOLEAN}
  /\ box = [r \in Roots |-> IF r = 1 THEN <<200 * Q, 100 * Q>> ELSE Hidden]
  /\ PageInit
  /\ DecodeOff

SpecOutline == InitOutline /\ [][Next]_vars

(* -------------------------- decoding alone ---------------------------- *)
InitDecode ==
  /\ dRoot \in DecodeRoots
  /\ dRes = NoRes
  /\ dpc = "ready"
  /\ doc = [r \in Roots |-> dRoot]
  /\ readyState = "complete" /\ dpr = Q /\ hasRO = FALSE
  /\ complete = [r \in Roots |-> FALSE]
  /\ box = [r \in Roots |-> Hidden]
  /\ PageInit

\* lines 104-117 of initOne on the root
Decode ==
  /\ dpc = "ready"
  /\ dRes' = ResolvePayload(dRoot)
  /\ dpc' = "done"
  /\ UNCHANGED <<dRoot, envVars, bootVars, pageVars>>

NextDecode == Decode

SpecDecode == InitDecode /\ [][NextDecode]_vars

(* ====================== payload resolution: C1-C4 ===================== *)
\* v >= 1 and v < 1 on a number, as mathematics has them
NumGe1(n) == \/ n.k = "inf" /\ ~n.neg
             \/ n.k = "fin" /\ ~n.neg /\ (n.hi > 0 \/ n.lo >= 1)
NumLt1(n) == n.k = "fin" /\ (n.neg \/ (n.hi = 0 /\ n.lo = 0))

\* the number n is the integer i
NumEqInt(n, i) ==
  /\ n.k = "fin" /\ ~n.half
  /\ \/ n.hi < Two15 /\ i = (IF n.neg THEN 0 - 1 ELSE 1) * (n.hi * Two16 + n.lo)
     \/ n.neg /\ n.hi = Two15 /\ n.lo = 0 /\ i = (0 - Two15) * Two16

\* the script parses as an object
IsObject(script) == script.k = "json" /\ script.val.t = "obj"

\* Number(active), or 0 when active is absent or not finite
CoercedActive(obj) ==
  IF obj.active.t # "absent" /\ ToNumber(obj.active).k = "fin"
  THEN ToNumber(obj.active) ELSE Zero

Decoded == dpc = "done"

\* C1 as stated: a payload object with a numeric v >= 1, integer or not and
\* of any magnitude, and an array masks is accepted: the result is its masks
\* in their order and the number its active field coerces to (0 when absent
\* or not finite).
C1_AnyMagnitude ==
  (Decoded /\ IsObject(dRoot.script) /\ dRoot.script.val.v.t = "num"
     /\ NumGe1(dRoot.script.val.v.n) /\ dRoot.script.val.masks.t = "arr")
  => /\ dRes.src = "internal" /\ ~dRes.raised
     /\ dRes.masks = dRoot.script.val.masks.items
     /\ NumEqInt(CoercedActive(dRoot.script.val), dRes.activeIndex)

\* C1 amended: a payload object with a numeric v whose 32-bit integer
\* coercion (v | 0) is >= 1 and an array masks is accepted: the result is
\* its masks in their order and the 32-bit integer coercion of the number
\* its active field coerces to (0 when absent or not finite).
C1_Int32Accepted ==
  (Decoded /\ IsObject(dRoot.script) /\ dRoot.script.val.v.t = "num"
     /\ ToInt32(dRoot.script.val.v.n) >= 1 /\ dRoot.script.val.masks.t = "arr")
  => /\ dRes.src = "internal" /\ ~dRes.raised
     /\ dRes.masks = dRoot.script.val.masks.items
     /\ dRes.activeIndex = ToInt32(CoercedActive(dRoot.script.val))

\* a payload with v = 1.5, two different masks and active "2" was decoded
C1_Witness ==
  /\ Decoded /\ IsObject(dRoot.script)
  /\ dRoot.script.val.v = JNum(OneAndHalf)
  /\ dRoot.script.val.active = JStr(Two)
  /\ dRoot.script.val.masks.t = "arr"
  /\ Len(dRoot.script.val.masks.items) = 2
  /\ dRoot.script.val.masks.items[1] # dRoot.script.val.masks.items[2]
  /\ dRes.masks = dRoot.script.val.masks.items
  /\ dRes.activeIndex = 2

\* the structured payload is one the claim lists as not acceptable, with
\* "v < 1" decided by lt1
NotAcceptable(script, lt1(_)) ==
  \/ script.k \in {"noscript", "blank", "garbage"}
  \/ script.k = "json" /\ script.val.t \in {"null", "prim", "arr"}
  \/ /\ IsObject(script)
     /\ \/ script.val.v.t = "absent"
        \/ script.val.v.t = "num" /\ lt1(script.val.v.n)
        \/ script.val.masks.t # "arr"

\* the data-active attribute parsed as an integer, 0 when it is absent or
\* does not parse
LegacyActive(a) == IF ~a.has \/ ParseInt(a.s).nan THEN 0 ELSE ParseInt(a.s).val

\* the masks array of the JSON object the data-masks-b64 attribute encodes,
\* empty when there is none
LegacyMasks(b) ==
  IF b.k \in {"utf8", "raw"} /\ b.val.k = "json" /\ b.val.val.t = "obj"
     /\ b.val.val.masks.t = "arr"
  THEN b.val.val.masks.items ELSE <<>>

FromLegacy ==
  /\ dRes.src = "legacy"
  /\ dRes.activeIndex = LegacyActive(dRoot.dataActive)
  /\ ~dRes.raised => dRes.masks = LegacyMasks(dRoot.dataMasksB64)

Int32Lt1(n) == ToInt32(n) < 1

C3_LegacyIgnored ==
  (Decoded /\ dRes.src = "internal")
  => \A a \in IntAttrs, b \in B64s :
       ResolvePayload([dRoot EXCEPT !.dataActive = a, !.dataMasksB64 = b]) = dRes

\* an accepted payload with an empty masks array beside legacy attributes
\* that carry an active index and a mask
C3_Witness ==
  /\ Decoded /\ dRes.src = "internal"
  /\ dRoot.script.val.masks = JArr(<<>>)
  /\ dRoot.script.val.active = JNum(One)
  /\ LegacyActive(dRoot.dataActive) = 3
  /\ LegacyMasks(dRoot.dataMasksB64) # <<>>
  /\ dRes.masks = <<>> /\ dRes.activeIndex = 1

\* a masks array can be recovered from the root
Recoverable(root) ==
  \/ IsObject(root.script) /\ root.script.val.masks.t = "arr"
  \/ LegacyMasks(root.dataMasksB64) # <<>>

\* C4: payload resolution never raises, for every script content and every
\* value of the data-masks-b64 attribute, and yields an empty mask list
\* whenever no masks array can be recovered.
C4_Total ==
  Decoded => /\ ~dRes.raised
             /\ ~Recoverable(dRoot) => dRes.masks = <<>>

(* ========================= the page: C5-C10 =========================== *)
\* C5: in an init pass a failure while initializing one root never keeps
\* the roots after it from being initialized: every pass so far has called
\* initOne on every root.
C5_RootsIndependent == \A r \in Roots : decodes[r] = passes

\* the box is below the 2 px threshold in width or in height
BelowThreshold(b) == b[1] < 2 * Q \/ b[2] < 2 * Q

\* C6: a draw that runs while the box of the image is below the threshold
\* in width or height does no sizing, clearing, fill or stroke and schedules
\* exactly one retry with its own arguments: this holds of a call of every
\* registered rerender closure in every reachable state, and no step taken
\* while the box is below the threshold changes the overlay surface.
C6_UnreadyRetries ==
  /\ [](\A r \in Roots : \A i \in 1..Len(resizeL[r]) :
          BelowThreshold(box[r]) =>
            \A P \in {draw(Page, r, resizeL[r][i], box[r], dpr)} :
               /\ P.css = css /\ P.buf = buf /\ P.ops = ops /\ P.used = used
               /\ P.rafQ = [rafQ EXCEPT ![r] = Append(@, resizeL[r][i])])
  /\ [][\A r \in Roots :
          BelowThreshold(box'[r]) =>
            /\ css'[r] = css[r] /\ buf'[r] = buf[r]
            /\ ops'[r] = ops[r] /\ used'[r] = used[r]]_vars

\* draw has run for an image that is wide enough but not high enough: it
\* has painted nothing and a retry is pending
C6_Witness ==
  \E r \in Roots :
    /\ drawn[r] /\ box[r][1] >= 2 * Q /\ box[r][2] < 2 * Q
    /\ used[r] = 0 /\ css[r] = <<0, 0>> /\ ops[r] = <<>>
    /\ rafQ[r] # <<>>

\* n is max(1, round(len * d)) for len and d in units of 1/Q, with halves
\* rounded up: n - 1/2 <= len * d < n + 1/2, or n = 1 when len * d < 3/2
Rounded(n, len, d) ==
  /\ n >= 1
  /\ IF 2 * len * d < 3 * Q * Q THEN n = 1
     ELSE (2 * n - 1) * Q * Q <= 2 * len * d /\ 2 * len * d < (2 * n + 1) * Q * Q

\* C7: after a draw that paints, with the box W x H and the device pixel
\* ratio d (1 when missing or zero), the surface has the CSS size W x H and
\* a buffer of max(1, round(W * d)) by max(1, round(H * d)); a 200 x 100 box
\* at ratio 2 gives 400 x 200.
C7_Sizing ==
  /\ [](\A r \in Roots :
          used[r] # 0 =>
            LET d == IF dpr = 0 THEN Q ELSE dpr
            IN /\ Rounded(buf[r][1], css[r][1], d)
               /\ Rounded(buf[r][2], css[r][2], d)
               /\ (css[r] = <<200 * Q, 100 * Q>> /\ dpr = 2 * Q) => buf[r] = <<400, 200>>)
  /\ [](\A r \in Roots : \A i \in 1..Len(resizeL[r]) :
          ~BelowThreshold(box[r]) =>
            draw(Page, r, resizeL[r][i], box[r], dpr).css[r] = box[r])
  /\ [][\A r \in Roots : css'[r] # css[r] => css'[r] = box'[r]]_vars

\* a 200 x 100 box was painted at ratio 2
C7_Witness ==
  \E r \in Roots :
    /\ used[r] = 1 /\ dpr = 2 * Q
    /\ css[r] = <<200 * Q, 100 * Q>> /\ box[r] = css[r]
    /\ buf[r] = <<400, 200>>

\* the positions in the operations on the surface of r of the fills of the
\* mask at the 0-based index idx
FillsOf(r, idx) == {i \in 1..Len(ops[r]) : ops[r][i].op = "fill" /\ ops[r][i].idx = idx}

\* the one fill of the mask at idx has the color col
OneFill(r, idx, col) == \E i \in FillsOf(r, idx) : FillsOf(r, idx) = {i} /\ ops[r][i].color = col

\* C8: for every mask list, active index and side: in mode "front" every
\* mask is filled once, with the active fill color exactly when its index is
\* activeIndex and the other fill color otherwise; in any other mode the
\* mask at activeIndex gets no fill and every other mask is filled once with
\* the other fill color.
C8_FillRule ==
  \A r \in Roots :
    used[r] # 0 =>
      LET c == Head(resizeL[r])
          colActive == IF c.style.fill_front = "" THEN "rgba(40,40,40,0.85)" ELSE c.style.fill_front
          colOther == IF c.style.fill_other = "" THEN "rgba(255,215,0,0.35)" ELSE c.style.fill_other
      IN /\ \A i \in 1..Len(ops[r]) : ops[r][i].idx \in 0..(Len(c.masks) - 1)
         /\ \A idx \in 0..(Len(c.masks) - 1) :
              IF c.side = "front"
              THEN OneFill(r, idx, IF idx = c.activeIndex THEN colActive ELSE colOther)
              ELSE IF idx = c.activeIndex THEN FillsOf(r, idx) = {}
                   ELSE OneFill(r, idx, colOther)

\* two masks were painted in mode "back" with the second one active: only
\* the first is filled
C8_Witness ==
  \E r \in Roots :
    /\ used[r] # 0 /\ resizeL[r] # <<>>
    /\ Head(resizeL[r]).side = "back"
    /\ Len(Head(resizeL[r]).masks) = 2 /\ Head(resizeL[r]).activeIndex = 1
    /\ FillsOf(r, 1) = {} /\ FillsOf(r, 0) # {}

\* C9: after any sequence of init passes and redraws an image for which
\* draw has run has exactly one wrapper, holding exactly one overlay
\* surface (never more than one of either), and every painting draw paints
\* the surface the first draw created.
C9_OneWrapperOneSurface ==
  \A r \in Roots :
    /\ wrap[r] <= 1 /\ canv[r] <= 1
    /\ drawn[r] => (wrap[r] = 1 /\ canv[r] = 1)
    /\ used[r] \in {0, 1}

\* a root initialized twice whose image was painted and has no retry left
C9_Witness ==
  \E r \in Roots :
    /\ inits[r] = 2 /\ complete[r] /\ used[r] = 1 /\ rafQ[r] = <<>>
    /\ Len(resizeL[r]) = 2
    /\ wrap[r] = 1 /\ canv[r] = 1

\* C10: a root without an image is inert: every initOne on it returns
\* without an error, and it gets no wrapper, no overlay surface, no load,
\* resize or element-resize listener and no animation-frame callback.
C10_NoImageInert ==
  \A r \in Roots :
    ~doc[r].hasImg =>
      /\ inits[r] = decodes[r]
      /\ wrap[r] = 0 /\ canv[r] = 0
      /\ loadL[r] = <<>> /\ resizeL[r] = <<>> /\ roL[r] = <<>> /\ rafQ[r] = <<>>

(* ===================== retries and redraws: C11-C19 =================== *)
\* C11: a draw that could not paint leaves a retry that is never abandoned:
\* an image for which draw has run and nothing was painted has a retry
\* pending, no step that leaves the box below the threshold empties the
\* pending retries of the image, and, with animation frames firing, a
\* pending retry of an image whose box is valid leads to the overlay being
\* painted at the box of the image unless the box falls below the threshold
\* again.
C11_RetryLives ==
  /\ [](\A r \in Roots : (drawn[r] /\ used[r] = 0) => rafQ[r] # <<>>)
  /\ [][\A r \in Roots :
          (rafQ[r] # <<>> /\ BelowThreshold(box'[r])) => rafQ'[r] # <<>>]_vars
  /\ \A r \in Roots :
       (rafQ[r] # <<>> /\ ~BelowThreshold(box[r]))
         ~> (BelowThreshold(box[r]) \/ (used[r] # 0 /\ css[r] = box[r]))

\* without ResizeObserver, an image that is not loaded, initialized once
\* and below the threshold: draw has run, painted nothing, and the one
\* retry there is has run in a frame and is pending again
C11_Witness ==
  \E r \in Roots :
    /\ ~hasRO /\ ~complete[r] /\ inits[r] = 1 /\ passes = 1
    /\ drawn[r] /\ used[r] = 0 /\ BelowThreshold(box[r])
    /\ Len(rafQ[r]) = 1

\* C12: over the page lifetime the payload and the style of a root are
\* resolved exactly once, and one captured set of masks, active index and
\* style serves every redraw of the root: no root is decoded a second time
\* and no root has a second rerender closure.
C12_ResolvedOnce ==
  \A r \in Roots :
    /\ decodes[r] <= 1
    /\ Len(resizeL[r]) <= 1
    /\ (booted /\ ~timerPending /\ readyState # "loading") => decodes[r] = 1

\* C13: in every interleaving of DOMContentLoaded and the zero-delay timer
\* init runs exactly twice: never more than twice, and twice once the
\* document is past loading and the timer has fired.
C13_TwoPasses ==
  /\ passes <= 2
  /\ (booted /\ ~timerPending /\ readyState # "loading") => passes = 2

\* C14: the box is measured by every draw: whenever an animation frame
\* runs a pending callback of an image, a window resize runs its rerender,
\* its load listener runs or its ResizeObserver callback runs, and the box
\* the image has then is valid, the surface is painted and its CSS size is
\* that box, whatever box an earlier draw saw.
C14_BoxMeasuredEachDraw ==
  [][\A r \in Roots :
       (/\ \/ Frame /\ rafQ[r] # <<>>
           \/ Resize /\ resizeL[r] # <<>>
           \/ Load(r) /\ loadL[r] # <<>>
           \/ (\E b \in Boxes : BoxChange(r, b)) /\ roL[r] # <<>>
        /\ ~BelowThreshold(box'[r]))
       => (used'[r] # 0 /\ css'[r] = box'[r])]_vars

\* without ResizeObserver, an image initialized twice whose box became
\* 2 x 3 after the page was set up: the surface has that size and no
\* callback is left
C14_Witness ==
  \E r \in Roots :
    /\ ~hasRO /\ inits[r] = 2 /\ complete[r]
    /\ box[r] = <<2 * Q, 3 * Q>> /\ css[r] = box[r] /\ used[r] = 1
    /\ rafQ[r] = <<>>

\* the step is an init pass in which initOne runs on the root r
InitOneRuns(r) == passes' = passes + 1 /\ decodes'[r] = decodes[r] + 1

\* C15: when initOne runs on a root whose image reports itself loaded, the
\* rerender closure is invoked during initOne (draw has run for the image
\* and no load listener is added); when the image is not loaded, draw is
\* not invoked during initOne and one load listener is added; a load event
\* runs the listeners there are and leaves none, so that a later load
\* event runs nothing.
C15_InitialInvocation ==
  [][\A r \in Roots :
       /\ (InitOneRuns(r) /\ doc[r].hasImg /\ complete[r])
            => (drawn'[r] /\ wrap'[r] = 1 /\ canv'[r] = 1 /\ loadL'[r] = loadL[r])
       /\ (InitOneRuns(r) /\ doc[r].hasImg /\ ~complete[r])
            => /\ Len(loadL'[r]) = Len(loadL[r]) + 1
               /\ drawn'[r] = drawn[r] /\ wrap'[r] = wrap[r] /\ canv'[r] = canv[r]
               /\ css'[r] = css[r] /\ ops'[r] = ops[r] /\ used'[r] = used[r]
       /\ Load(r)
            => /\ loadL'[r] = <<>>
               /\ loadL[r] # <<>> => drawn'[r]
               /\ loadL[r] = <<>> => UNCHANGED pageVars]_vars

\* C16: for every value of the data-outline-px attribute, every outline is
\* stroked with a positive width, and with the default 2 whenever the
\* attribute is absent or does not parse as an integer.
C16_OutlinePositive ==
  \A r \in Roots : \A i \in 1..Len(ops[r]) :
    ops[r][i].op = "stroke" =>
      /\ ops[r][i].lw > 0
      /\ (~doc[r].outlinePx.has \/ ParseInt(doc[r].outlinePx.s).nan) => ops[r][i].lw = 2

\* C17: redraws do not accumulate: the content of a painted surface is
\* what one draw of the masks at the box it was sized to paints on an empty
\* surface, and in every reachable state with a valid box a draw paints
\* what it would paint on an empty surface and a second and a third draw
\* after it leave the content, the CSS size and the buffer as the first
\* left them.
C17_RedrawIdempotent ==
  \A r \in Roots :
    /\ used[r] # 0 => ops[r] = PaintFrom(Head(resizeL[r]), css[r], 1)
    /\ \A i \in 1..Len(resizeL[r]) :
         ~BelowThreshold(box[r]) =>
           LET c == resizeL[r][i]
               P0 == draw([Page EXCEPT !.ops[r] = <<>>], r, c, box[r], dpr)
               P1 == draw(Page, r, c, box[r], dpr)
               P2 == draw(P1, r, c, box[r], dpr)
               P3 == draw(P2, r, c, box[r], dpr)
           IN /\ P1.ops[r] = P0.ops[r]
              /\ P2.ops[r] = P1.ops[r] /\ P3.ops[r] = P1.ops[r]
              /\ P2.css[r] = P1.css[r] /\ P2.buf[r] = P1.buf[r]

\* two masks in mode "front", painted by the draws of two initializations
\* and of their animation-frame callbacks: two fills and two outlines
C17_Witness ==
  \E r \in Roots :
    /\ inits[r] = 2 /\ complete[r] /\ rafQ[r] = <<>> /\ used[r] = 1
    /\ Head(resizeL[r]).side = "front" /\ Len(Head(resizeL[r]).masks) = 2
    /\ Len(ops[r]) = 4

\* C18: on a painted surface the operations come in array order of the
\* masks, everything of one mask before anything of the next and a mask's
\* fill before its outline; every mask, in every mode and active or not,
\* has exactly one outline, at (x*W + 0.5, y*H + 0.5, w*W, h*H), and a fill
\* is at (x*W, y*H, w*W, h*H), for the W x H box the surface was sized to.
C18_PaintOrder ==
  \A r \in Roots :
    used[r] # 0 =>
      LET c == Head(resizeL[r])
          W == css[r][1]
          H == css[r][2]
          o == ops[r]
          RectOf(m) == <<2 * m.x * W, 2 * m.y * H, 2 * m.w * W, 2 * m.h * H>>
      IN /\ \A i, j \in 1..Len(o) :
              i < j => /\ o[i].idx <= o[j].idx
                       /\ o[i].idx = o[j].idx => (o[i].op = "fill" /\ o[j].op = "stroke")
         /\ \A idx \in 0..(Len(c.masks) - 1) :
              \E i \in 1..Len(o) :
                /\ o[i].op = "stroke" /\ o[i].idx = idx
                /\ \A j \in 1..Len(o) : (o[j].op = "stroke" /\ o[j].idx = idx) => j = i
                /\ o[i].rect = <<RectOf(c.masks[idx + 1])[1] + Q * Q,
                                 RectOf(c.masks[idx + 1])[2] + Q * Q,
                                 RectOf(c.masks[idx + 1])[3], RectOf(c.masks[idx + 1])[4]>>
         /\ \A i \in 1..Len(o) :
              /\ o[i].idx \in 0..(Len(c.masks) - 1)
              /\ o[i].op = "fill" => o[i].rect = RectOf(c.masks[o[i].idx + 1])

\* two different masks in mode "back" with the first one active, painted on
\* a 2 x 3 box: the outline of the first, then the fill and the outline of
\* the second
C18_Witness ==
  \E r \in Roots :
    /\ used[r] # 0 /\ css[r] = <<2 * Q, 3 * Q>>
    /\ Head(resizeL[r]).side = "back" /\ Head(resizeL[r]).activeIndex = 0
    /\ Len(Head(resizeL[r]).masks) = 2
    /\ Head(resizeL[r]).masks[1] # Head(resizeL[r]).masks[2]
    /\ Len(ops[r]) = 3
    /\ ops[r][1].op = "stroke" /\ ops[r][2].op = "fill" /\ ops[r][3].op = "stroke"

\* C19: retry chains drain: in every reachable state a draw of a
\* registered closure adds exactly one pending animation-frame callback
\* when the box is below the threshold and none when it paints; outside an
\* init pass no step that ends with a valid box increases the pending
\* callbacks of the image, and an init pass adds at most the one callback
\* of initOne; and, with animation frames firing, a valid box leads to no
\* pending callback for the image unless the box falls below the threshold.
C19_RetriesDrain ==
  /\ [](\A r \in Roots : \A i \in 1..Len(resizeL[r]) :
          \A P \in {draw(Page, r, resizeL[r][i], box[r], dpr)} :
             Len(P.rafQ[r]) = Len(rafQ[r]) + (IF BelowThreshold(box[r]) THEN 1 ELSE 0))
  /\ [][\A r \in Roots :
          ~BelowThreshold(box'[r]) =>
            Len(rafQ'[r]) <= Len(rafQ[r]) + (IF passes' = passes THEN 0 ELSE 1)]_vars
  /\ \A r \in Roots :
       (~BelowThreshold(box[r])) ~> (BelowThreshold(box[r]) \/ rafQ[r] = <<>>)

\* with ResizeObserver, after both init passes: an image painted at a
\* 200 x 100 box, and no animation-frame callback left on the page
C19_Witness ==
  /\ hasRO /\ passes = 2 /\ ~timerPending
  /\ \A q \in Roots : rafQ[q] = <<>>
  /\ \E r \in Roots :
       /\ inits[r] = 2 /\ drawn[r] /\ used[r] = 1
       /\ box[r] = <<200 * Q, 100 * Q>> /\ css[r] = box[r]

====
